---- MODULE Spec2Model ----
(***************************************************************************)
(* Document similarity (similarity.py): clean -> tokenize -> frequency ->  *)
(* cosine_similarity -> round.  Strings are sequences of one-character     *)
(* strings.  Every function of the module is an operator computed the way  *)
(* the code computes it; each specification below draws the arguments of   *)
(* one function from a bounded set and calls it.                           *)
(***************************************************************************)
EXTENDS Integers, Sequences, FiniteSets, TLC

VARIABLES
    pc,      \* control position of the caller
    args,    \* the arguments of the call, as the caller passed them
    vocab,   \* similarity's local `vocab` in the latest call
    ret,     \* value returned by the latest call
    exc,     \* exception the latest call raised ("" when it returned)
    first    \* outcome [ret, exc] of similarity(d1, d2) once similarity(d2, d1) ran

vars == <<pc, args, vocab, ret, exc, first>>

None == "None"
NoExc == ""

(***************************************************************************)
(* Bounds of the inputs.                                                   *)
(***************************************************************************)
MaxLen == 4        \* characters in an argument of clean
MaxDocLen == 5     \* characters in an argument of tokenize
MaxTokens == 3     \* tokens in an argument of frequency
MaxSeqLen == 3     \* largest seq_len passed to frequency
MaxKeys == 3       \* distinct keys of a term frequency vector
MaxCount == 2      \* largest count in a term frequency vector
MaxWords == 2      \* words in an argument of similarity

(***************************************************************************)
(* Characters.                                                             *)
(***************************************************************************)
LowerSeq == <<"a","b","c","d","e","f","g","h","i","j","k","l","m",
              "n","o","p","q","r","s","t","u","v","w","x","y","z">>
UpperSeq == <<"A","B","C","D","E","F","G","H","I","J","K","L","M",
              "N","O","P","Q","R","S","T","U","V","W","X","Y","Z">>
DigitSeq == <<"0","1","2","3","4","5","6","7","8","9">>

Range(s) == {s[i] : i \in DOMAIN s}

\* the class [a-zA-Z0-9 ] of the first substitution
Alnum == Range(LowerSeq) \cup Range(UpperSeq) \cup Range(DigitSeq)
AlnumSpace == Alnum \cup {" "}

\* what \s and str.split() / str.strip() treat as whitespace
Whitespace == {" ", "\t", "\n", "\r", "\f"}

STOP_WORDS == {<<"a">>, <<"a","n">>, <<"t","h","e">>, <<"o","f">>,
               <<"f","o","r">>, <<"a","n","d">>, <<"o","r">>}

\* str.lower() on one character
LowerChar(c) ==
    IF c \in Range(UpperSeq)
    THEN LowerSeq[CHOOSE i \in DOMAIN UpperSeq : UpperSeq[i] = c]
    ELSE c

lower(s) == [i \in DOMAIN s |-> LowerChar(s[i])]

\* str.strip(): drop leading and trailing whitespace
RECURSIVE lstrip(_)
lstrip(s) ==
    IF s # <<>> /\ Head(s) \in Whitespace THEN lstrip(Tail(s)) ELSE s

RECURSIVE rstrip(_)
rstrip(s) ==
    IF s # <<>> /\ s[Len(s)] \in Whitespace
    THEN rstrip(SubSeq(s, 1, Len(s) - 1))
    ELSE s

strip(s) == rstrip(lstrip(s))

\* re.sub(r'[^a-zA-Z0-9 ]', '', doc)
IsAlnumSpace(c) == c \in AlnumSpace

sub_non_alnum(s) == SelectSeq(s, IsAlnumSpace)

\* re.sub(r'\s+', ' ', doc): every maximal run of whitespace becomes " "
RECURSIVE sub_whitespace(_)
sub_whitespace(s) ==
    IF s = <<>> THEN <<>>
    ELSE IF Head(s) \in Whitespace
         THEN <<" ">> \o sub_whitespace(lstrip(s))
         ELSE <<Head(s)>> \o sub_whitespace(Tail(s))

clean_no_collapse(doc) == strip(lower(sub_non_alnum(doc)))

clean(doc) == strip(lower(sub_whitespace(sub_non_alnum(doc))))

\* str.split(): the maximal runs of non-whitespace, left to right
RECURSIVE split_from(_, _, _)
split_from(s, word, words) ==
    IF s = <<>>
    THEN IF word = <<>> THEN words ELSE Append(words, word)
    ELSE IF Head(s) \in Whitespace
         THEN split_from(Tail(s), <<>>,
                         IF word = <<>> THEN words ELSE Append(words, word))
         ELSE split_from(Tail(s), Append(word, Head(s)), words)

split(s) == split_from(s, <<>>, <<>>)

NotStopWord(word) == word \notin STOP_WORDS

tokenize_no_order(doc) ==
    LET w == split(doc)
        kept == SelectSeq(w, NotStopWord)
    IN  [i \in DOMAIN kept |-> kept[Len(kept) + 1 - i]]

tokenize(doc) == SelectSeq(split(doc), NotStopWord)

(***************************************************************************)
(* frequency: a dict is a function from tuples to counts; the outcome of a *)
(* call is a record of the returned value and the raised exception.        *)
(***************************************************************************)
Returned(v) == [ret |-> v, exc |-> NoExc]
Raised(e) == [ret |-> None, exc |-> e]

EmptyDict == <<>>

\* lines 68-71: count one more occurrence of seq
count_seq(seq_count, seq) ==
    IF seq \in DOMAIN seq_count
    THEN [seq_count EXCEPT ![seq] = @ + 1]
    ELSE seq_count @@ (seq :> 1)

\* range(len(tokens) - (length - 1))
window_range_short(tokens, length) == Len(tokens) - length

window_range(tokens, length) == Len(tokens) - (length - 1)

\* lines 66-71: for i in range(...), i is the 0-based start of the window
RECURSIVE frequency_inner(_, _, _, _)
frequency_inner(tokens, length, i, seq_count) ==
    IF i >= window_range(tokens, length) THEN seq_count
    ELSE frequency_inner(tokens, length, i + 1,
                         count_seq(seq_count, SubSeq(tokens, i + 1, i + length)))

\* lines 65-71: for length in range(1, seq_len + 1)
RECURSIVE frequency_outer(_, _, _, _)
frequency_outer(tokens, seq_len, length, seq_count) ==
    IF length >= seq_len + 1 THEN seq_count
    ELSE frequency_outer(tokens, seq_len, length + 1,
                         frequency_inner(tokens, length, 0, seq_count))

seq_len_ok_nonneg(seq_len) == seq_len >= 0

\* line 62: assert seq_len >= 1
seq_len_ok(seq_len) == seq_len >= 1

frequency(tokens, seq_len) ==
    IF ~seq_len_ok(seq_len) THEN Raised("AssertionError")
    ELSE Returned(frequency_outer(tokens, seq_len, 1, EmptyDict))

(***************************************************************************)
(* IEEE-754 binary64 arithmetic, as Python's float uses it.  A natural     *)
(* number too wide for one machine word is a sequence of Width limbs of    *)
(* LimbBits bits, least significant first.                                 *)
(***************************************************************************)
LimbBits == 14
Limb == 16384          \* 2^LimbBits
Width == 8
MantBits == 53         \* significand bits of a binary64

Pow2(k) == 2 ^ k

Get(x, i) == IF i \in 1..Width THEN x[i] ELSE 0

\* the value of x when it fits one machine word
IntOfBig(x) ==
    CASE \A i \in 3..Width : x[i] = 0 -> x[1] + Limb * x[2]

\* carry (or borrow) propagation over the column values cols, from limb i up
RECURSIVE CarryFrom(_, _, _)
CarryFrom(cols, i, c) ==
    IF i > Width THEN <<>>
    ELSE LET v == cols[i] + c
         IN  <<v % Limb>> \o CarryFrom(cols, i + 1, v \div Limb)

Carry(cols) == CarryFrom(cols, 1, 0)

\* the limbs of n < 2^31
BigOfInt(n) == Carry([i \in 1..Width |-> IF i = 1 THEN n ELSE 0])

BigZero == BigOfInt(0)

BigAdd(x, y) == Carry([i \in 1..Width |-> x[i] + y[i]])

\* c < 2^16
BigMulSmall(x, c) == Carry([i \in 1..Width |-> x[i] * c])

\* x, y < 2^56 (at most 4 limbs each)
BigMul(x, y) ==
    LET P(i, j) == IF i \in 1..4 /\ j \in 1..4 THEN x[i] * y[j] ELSE 0
    IN  Carry([k \in 1..Width |->
                  P(1, k) + P(2, k - 1) + P(3, k - 2) + P(4, k - 3)])

BigLeq(x, y) ==
    LET diff == {i \in 1..Width : x[i] # y[i]}
    IN  IF diff = {} THEN TRUE
        ELSE LET top == CHOOSE i \in diff : \A j \in diff : j <= i
             IN  x[top] < y[top]

\* x * 2^k, which must fit Width limbs
BigShl(x, k) ==
    LET q == k \div LimbBits
        r == k % LimbBits
    IN  Carry([i \in 1..Width |->
                  (Get(x, i - q) % Pow2(LimbBits - r)) * Pow2(r)
                      + Get(x, i - q - 1) \div Pow2(LimbBits - r)])

\* floor(x / 2^k)
BigShr(x, k) ==
    LET q == k \div LimbBits
        r == k % LimbBits
    IN  Carry([i \in 1..Width |->
                  Get(x, i + q) \div Pow2(r)
                      + (Get(x, i + q + 1) % Pow2(r)) * Pow2(LimbBits - r)])

\* bit k of x (bit 0 is the least significant)
BigBit(x, k) == (Get(x, k \div LimbBits + 1) \div Pow2(k % LimbBits)) % 2

\* x mod 2^k = 0
BigLowZero(x, k) ==
    /\ \A i \in 1..Width : i <= k \div LimbBits => x[i] = 0
    /\ Get(x, k \div LimbBits + 1) % Pow2(k % LimbBits) = 0

\* number of significant bits of x
BigBitLength(x) ==
    IF x = BigZero THEN 0
    ELSE LET top == CHOOSE i \in 1..Width :
                        x[i] # 0 /\ \A j \in 1..Width : j > i => x[j] = 0
             b == CHOOSE n \in 1..LimbBits : Pow2(n - 1) <= x[top] /\ x[top] < Pow2(n)
         IN  LimbBits * (top - 1) + b

\* x / 2^k rounded to the nearest integer, ties to even
BigRoundShr(x, k) ==
    IF k <= 0 THEN x
    ELSE LET q == BigShr(x, k)
             up == /\ BigBit(x, k - 1) = 1
                   /\ (~BigLowZero(x, k - 1) \/ BigBit(q, 0) = 1)
         IN  IF up THEN BigAdd(q, BigOfInt(1)) ELSE q

BigSub(x, y) == Carry([i \in 1..Width |-> x[i] - y[i]])

\* x * Limb^j
BigShlLimbs(x, j) == Carry([i \in 1..Width |-> Get(x, i - j)])

\* the largest digit d <= guess with d * v * Limb^j <= u
RECURSIVE FitDigit(_, _, _, _)
FitDigit(u, v, j, guess) ==
    IF BigLeq(BigShlLimbs(BigMulSmall(v, guess), j), u) THEN guess
    ELSE FitDigit(u, v, j, guess - 1)

\* schoolbook long division, one limb of the quotient per step, from limb j
\* down; v has 4 limbs with the top bit of v[4] set and u < v * Limb^(j+1),
\* so the two top limbs of u over v[4] never underestimate the digit, and
\* what is left after the digit is below v * Limb^j
RECURSIVE BigDivStep(_, _, _, _)
BigDivStep(u, v, j, q) ==
    IF j < 0 THEN [quot |-> q, rem |-> u]
    ELSE LET top2 == Get(u, j + 5) * Limb + Get(u, j + 4)
             guess == IF top2 \div v[4] >= Limb THEN Limb - 1 ELSE top2 \div v[4]
             d == FitDigit(u, v, j, guess)
             rest == BigSub(u, BigShlLimbs(BigMulSmall(v, d), j))
             digits == [q EXCEPT ![j + 1] = d]
         IN  CASE rest # BigShlLimbs(v, j) /\ BigLeq(rest, BigShlLimbs(v, j)) ->
                 BigDivStep(rest, v, j - 1, digits)

\* floor(u / v) and u mod v for 2^52 <= v < 2^53 and u < v * 2^56
BigDivMod(u, v) == BigDivStep(BigShl(u, 3), BigShl(v, 3), 3, BigZero)

SetBit(q, bit) == [q EXCEPT ![bit \div LimbBits + 1] = @ + Pow2(bit % LimbBits)]

\* the largest r < 2^(bit+1) with r * r <= t, found bit by bit from the top
RECURSIVE BigSqrtSearch(_, _, _)
BigSqrtSearch(r, t, bit) ==
    IF bit < 0 THEN r
    ELSE LET cand == SetBit(r, bit)
         IN  IF BigLeq(BigMul(cand, cand), t)
             THEN BigSqrtSearch(cand, t, bit - 1)
             ELSE BigSqrtSearch(r, t, bit - 1)

\* a float is 0.0 or m * 2^e with 2^52 <= m < 2^53
FloatZero == [m |-> BigZero, e |-> 0]

IsZero(x) == x.m = BigZero

\* the float nearest to big * 2^scale (big > 0), ties to even
RoundToFloat(big, scale) ==
    LET n == BigBitLength(big)
    IN  IF n <= MantBits
        THEN [m |-> BigShl(big, MantBits - n), e |-> scale - (MantBits - n)]
        ELSE LET m == BigRoundShr(big, n - MantBits)
             IN  IF BigBitLength(m) > MantBits
                 THEN [m |-> BigShr(m, 1), e |-> scale + (n - MantBits) + 1]
                 ELSE [m |-> m, e |-> scale + (n - MantBits)]

\* float(n) for an integer 0 <= n < 2^31
FloatOfInt(n) == IF n = 0 THEN FloatZero ELSE RoundToFloat(BigOfInt(n), 0)

\* q with one more low bit that is set iff the quotient or root was inexact
WithSticky(q, exact) ==
    BigAdd(BigShl(q, 1), BigOfInt(IF exact THEN 0 ELSE 1))

\* x * y
fmul(x, y) ==
    IF IsZero(x) \/ IsZero(y) THEN FloatZero
    ELSE RoundToFloat(BigMul(x.m, y.m), x.e + y.e)

\* x / y for y # 0.0
fdiv(x, y) ==
    IF IsZero(x) THEN FloatZero
    ELSE LET d == BigDivMod(BigShl(x.m, 55), y.m)
         IN  RoundToFloat(WithSticky(d.quot, d.rem = BigZero), x.e - y.e - 56)

\* math.sqrt(float(n)) for an integer 0 <= n < 2^31: the root of n * 4^s,
\* with s chosen to give the root 54 bits
SqrtOfInt(n) ==
    IF n = 0 THEN FloatZero
    ELSE LET big == BigOfInt(n)
             s == (108 - BigBitLength(big)) \div 2
             t == BigShl(big, 2 * s)
             r == BigSqrtSearch(BigZero, t, 53)
         IN  RoundToFloat(WithSticky(r, BigMul(r, r) = t), 0 - s - 1)

\* the roots of the sums of squares the bounded inputs can produce, computed once
SqrtTable == [n \in 0..(MaxKeys * MaxCount * MaxCount) |-> SqrtOfInt(n)]

math_sqrt(n) == IF n \in DOMAIN SqrtTable THEN SqrtTable[n] ELSE SqrtOfInt(n)

\* round(x, 2) for 0 <= x < 2^52: the nearest multiple of 1/100, ties to even,
\* given as its number of hundredths
round2(x) ==
    IF IsZero(x) THEN 0
    ELSE CASE x.e <= 0 -> IntOfBig(BigRoundShr(BigMulSmall(x.m, 100), 0 - x.e))

(***************************************************************************)
(* dot_product, cosine_similarity, similarity.  A term frequency vector is *)
(* a dict from 1-tuples to counts.  dot_product's sum is a float whose     *)
(* value is a small integer, which float addition and multiplication give  *)
(* exactly, so it is held as that integer.                                 *)
(***************************************************************************)
\* lines 92-94, the keys of tf1 still to visit
RECURSIVE dot_product_loop(_, _, _, _)
dot_product_loop(tf1, tf2, keys, sum) ==
    IF keys = {} THEN sum
    ELSE LET k1 == CHOOSE k \in keys : TRUE
         IN  IF k1 \in DOMAIN tf2
             THEN dot_product_loop(tf1, tf2, keys \ {k1}, sum + tf1[k1] * tf2[k1])
             ELSE dot_product_loop(tf1, tf2, keys \ {k1}, sum)

dot_product_left(tf1, tf2) == dot_product_loop(tf1, tf1, DOMAIN tf1 \cap DOMAIN tf2, 0)

dot_product(tf1, tf2) == dot_product_loop(tf1, tf2, DOMAIN tf1, 0)

denominator_one_root(tf1, tf2) == math_sqrt(dot_product(tf1, tf1))

\* lines 114-115
denominator(tf1, tf2) ==
    fmul(math_sqrt(dot_product(tf1, tf1)), math_sqrt(dot_product(tf2, tf2)))

\* float.__truediv__ raises ZeroDivisionError on a zero divisor
cosine_similarity(tf1, tf2) ==
    LET numerator == FloatOfInt(dot_product(tf1, tf2))
        denom == denominator(tf1, tf2)
    IN  IF IsZero(denom) THEN Raised("ZeroDivisionError")
        ELSE Returned(fdiv(numerator, denom))

\* list(set(...)): the elements of S once each, in an order the hash decides
list_of_set(S) == {p \in [1..Cardinality(S) -> S] : Range(p) = S}

vocabulary(d1, d2) == Range(tokenize(clean(d1)) \o tokenize(clean(d2)))

vocab_index_zero(vocabList, token) == 0

\* vocab.index(token), 0-based
vocab_index(vocabList, token) ==
    (CHOOSE i \in DOMAIN vocabList :
        vocabList[i] = token /\ \A j \in 1..(i - 1) : vocabList[j] # token) - 1

seq_length == 1

\* line 148: the rounded score is given as its number of hundredths
round_score(cos) == IF cos.exc # NoExc THEN cos ELSE Returned(round2(cos.ret))

\* lines 145-148, once both frequency calls are made
compare(f1, f2) ==
    IF f1.exc # NoExc THEN f1
    ELSE IF f2.exc # NoExc THEN f2
    ELSE round_score(cosine_similarity(f1.ret, f2.ret))

\* lines 140-141
index_tokens(vocabList, t) == [i \in DOMAIN t |-> vocab_index(vocabList, t[i])]

\* similarity(d1, d2) when list(set(d1 + d2)) comes out as vocabList
similarity(doc1, doc2, vocabList) ==
    compare(frequency(index_tokens(vocabList, tokenize(clean(doc1))), seq_length),
            frequency(index_tokens(vocabList, tokenize(clean(doc2))), seq_length))

(***************************************************************************)
(* Bounded argument sets.                                                  *)
(***************************************************************************)
SeqsUpTo(S, n) == UNION {[1..k -> S] : k \in 0..n}

\* one character of every class the two substitutions tell apart
CleanChars == {"a", "B", "7", " ", "\t", "\n", "!"}
CleanDocs == SeqsUpTo(CleanChars, MaxLen)

\* letters that spell stop words and other words, two kinds of whitespace
TokenChars == {"a", "n", "x", "A", " ", "\t"}
TokenizeDocs == SeqsUpTo(TokenChars, MaxDocLen)

TokenValues == {0, 1}
TokenLists == SeqsUpTo(TokenValues, MaxTokens)
SeqLens == {0 - 1, 0} \cup (1..MaxSeqLen)

(***************************************************************************)
(* clean(doc)                                                              *)
(***************************************************************************)
InitClean ==
    /\ pc = "call"
    /\ args \in [doc : CleanDocs]
    /\ vocab = None /\ ret = None /\ exc = NoExc /\ first = None

CallClean ==
    /\ pc = "call"
    /\ pc' = "return"
    /\ ret' = clean(args.doc)
    /\ UNCHANGED <<args, vocab, exc, first>>

NextClean == CallClean

SpecClean == InitClean /\ [][NextClean]_vars

(***************************************************************************)
(* tokenize(doc)                                                           *)
(***************************************************************************)
InitTokenize ==
    /\ pc = "call"
    /\ args \in [doc : TokenizeDocs]
    /\ vocab = None /\ ret = None /\ exc = NoExc /\ first = None

CallTokenize ==
    /\ pc = "call"
    /\ pc' = "return"
    /\ ret' = tokenize(args.doc)
    /\ UNCHANGED <<args, vocab, exc, first>>

NextTokenize == CallTokenize

SpecTokenize == InitTokenize /\ [][NextTokenize]_vars

(***************************************************************************)
(* frequency(tokens, seq_len)                                              *)
(***************************************************************************)
InitFrequency ==
    /\ pc = "call"
    /\ args \in [tokens : TokenLists, seq_len : SeqLens]
    /\ vocab = None /\ ret = None /\ exc = NoExc /\ first = None

CallFrequency ==
    /\ pc = "call"
    /\ \E out \in {frequency(args.tokens, args.seq_len)} :
           /\ pc' = IF out.exc = NoExc THEN "return" ELSE "raise"
           /\ ret' = out.ret
           /\ exc' = out.exc
    /\ UNCHANGED <<args, vocab, first>>

NextFrequency == CallFrequency

SpecFrequency == InitFrequency /\ [][NextFrequency]_vars

(***************************************************************************)
(* cosine_similarity(tf1, tf2)                                             *)
(***************************************************************************)
VectorKeys == {<<i>> : i \in 0..(MaxKeys - 1)}
TermVectors == UNION {[K -> 1..MaxCount] : K \in SUBSET VectorKeys}

InitCosine ==
    /\ pc = "call"
    /\ args \in [tf1 : TermVectors, tf2 : TermVectors]
    /\ vocab = None /\ ret = None /\ exc = NoExc /\ first = None

CallCosine ==
    /\ pc = "call"
    /\ \E out \in {cosine_similarity(args.tf1, args.tf2)} :
           /\ pc' = IF out.exc = NoExc THEN "return" ELSE "raise"
           /\ ret' = out.ret
           /\ exc' = out.exc
    /\ UNCHANGED <<args, vocab, first>>

NextCosine == CallCosine

SpecCosine == InitCosine /\ [][NextCosine]_vars

(***************************************************************************)
(* similarity(d1, d2), then similarity(d2, d1)                             *)
(***************************************************************************)
\* a word with what follows it: a plain word, a capitalised word with
\* punctuation, a stop word
DocWords == {<<"x", " ">>, <<"Y", ".", " ">>, <<"a", " ">>}

RECURSIVE Flatten(_)
Flatten(ss) == IF ss = <<>> THEN <<>> ELSE Head(ss) \o Flatten(Tail(ss))

Documents == {Flatten(ws) : ws \in SeqsUpTo(DocWords, MaxWords)}

InitSimilarity ==
    /\ pc = "call"
    /\ args \in [d1 : Documents, d2 : Documents]
    /\ vocab = None /\ ret = None /\ exc = NoExc /\ first = None

CallSimilarity ==
    /\ pc = "call"
    /\ \E v \in list_of_set(vocabulary(args.d1, args.d2)) :
           \E out \in {similarity(args.d1, args.d2, v)} :
               /\ vocab' = v
               /\ ret' = out.ret
               /\ exc' = out.exc
    /\ pc' = "swap"
    /\ UNCHANGED <<args, first>>

CallSwapped ==
    /\ pc = "swap"
    /\ \E v \in list_of_set(vocabulary(args.d2, args.d1)) :
           \E out \in {similarity(args.d2, args.d1, v)} :
               /\ vocab' = v
               /\ ret' = out.ret
               /\ exc' = out.exc
    /\ first' = [ret |-> ret, exc |-> exc]
    /\ pc' = "done"
    /\ UNCHANGED args

NextSimilarity == CallSimilarity \/ CallSwapped

SpecSimilarity == InitSimilarity /\ [][NextSimilarity]_vars

(***************************************************************************)
(* Properties of clean.                                                    *)
(***************************************************************************)
AllIn(s, S) == \A i \in DOMAIN s : s[i] \in S

\* C6: clean's result holds only lowercase letters, digits and spaces, never
\* two spaces in a row, no space at either end; clean("") is "" and clean
\* raises nothing.
C6_CleanOutputNormalised ==
    pc = "return" =>
        /\ exc = NoExc
        /\ AllIn(ret, Range(LowerSeq) \cup Range(DigitSeq) \cup {" "})
        /\ \A i \in 1..(Len(ret) - 1) : ~(ret[i] = " " /\ ret[i + 1] = " ")
        /\ ret # <<>> => (ret[1] # " " /\ ret[Len(ret)] # " ")
        /\ args.doc = <<>> => ret = <<>>

C6_Witness ==
    /\ pc = "return"
    /\ args.doc = <<"a", " ", " ", "B">>
    /\ ret = <<"a", " ", "b">>

\* C7: two alphanumeric words separated by a non-empty run of whitespace
\* characters of any kind come out of clean separated by exactly one space.
C7_WhitespaceRunCollapsed ==
    pc = "return" =>
        \A i, j \in 1..Len(args.doc) :
            LET d == args.doc
                w1 == SubSeq(d, 1, i - 1)
                run == SubSeq(d, i, j)
                w2 == SubSeq(d, j + 1, Len(d))
            IN  (/\ i <= j /\ w1 # <<>> /\ w2 # <<>>
                 /\ AllIn(w1, Alnum) /\ AllIn(run, Whitespace) /\ AllIn(w2, Alnum))
                => ret = lower(w1) \o <<" ">> \o lower(w2)

(***************************************************************************)
(* Properties of tokenize.                                                 *)
(***************************************************************************)
\* d[i..j] is a maximal run of non-whitespace characters of d
IsWordAt(d, i, j) ==
    /\ i <= j
    /\ \A k \in i..j : d[k] \notin Whitespace
    /\ i = 1 \/ d[i - 1] \in Whitespace
    /\ j = Len(d) \/ d[j + 1] \in Whitespace

WordAt(d, i) == SubSeq(d, i, CHOOSE j \in i..Len(d) : IsWordAt(d, i, j))

\* start positions of the words of d that are not stop words
KeptStarts(d) ==
    {i \in 1..Len(d) : (\E j \in i..Len(d) : IsWordAt(d, i, j))
                        /\ WordAt(d, i) \notin STOP_WORDS}

\* C8: tokenize returns exactly the whitespace-delimited words that are not
\* stop words, in their original order, duplicates kept; no token is empty
\* or a stop word.
C8_TokenizeExact ==
    pc = "return" =>
        LET d == args.doc
            starts == KeptStarts(d)
        IN  /\ Len(ret) = Cardinality(starts)
            /\ \A i \in starts :
                   ret[Cardinality({s \in starts : s <= i})] = WordAt(d, i)
            /\ \A n \in DOMAIN ret : ret[n] # <<>> /\ ret[n] \notin STOP_WORDS

C8_Witness ==
    /\ pc = "return"
    /\ args.doc = <<"a", " ", "x", "\t", "n">>
    /\ ret = << <<"x">>, <<"n">> >>

(***************************************************************************)
(* Properties of frequency.                                                *)
(***************************************************************************)
RECURSIVE SumOver(_, _)
SumOver(f, keys) ==
    IF keys = {} THEN 0
    ELSE LET k == CHOOSE x \in keys : TRUE
         IN  f[k] + SumOver(f, keys \ {k})

Max(a, b) == IF a >= b THEN a ELSE b

\* 1-based start positions at which the tuple k occurs in t
Occurrences(t, k) ==
    {i \in 1..(Len(t) - Len(k) + 1) : SubSeq(t, i, i + Len(k) - 1) = k}

\* C9: with seq_len >= 1 the keys of frequency's result are exactly the
\* tuples of 1..seq_len consecutive tokens, each mapped to the number of
\* positions where it occurs; the counts of width n sum to
\* max(0, len(tokens) - n + 1); the empty list gives the empty dict.
C9_FrequencyCounts ==
    (pc # "call" /\ args.seq_len >= 1) =>
        LET t == args.tokens
        IN  /\ pc = "return"
            /\ DOMAIN ret = {SubSeq(t, i, i + n - 1) :
                                 <<n, i>> \in {p \in (1..args.seq_len) \X (1..Len(t)) :
                                                  p[2] + p[1] - 1 <= Len(t)}}
            /\ \A k \in DOMAIN ret : ret[k] = Cardinality(Occurrences(t, k))
            /\ \A n \in 1..args.seq_len :
                   SumOver(ret, {k \in DOMAIN ret : Len(k) = n})
                       = Max(0, Len(t) - n + 1)
            /\ t = <<>> => DOMAIN ret = {}

C9_Witness ==
    /\ pc = "return"
    /\ args.tokens = <<0, 1, 0>>
    /\ args.seq_len = 2
    /\ ret = (<<0>> :> 2) @@ (<<1>> :> 1) @@ (<<0, 1>> :> 1) @@ (<<1, 0>> :> 1)

\* C10: frequency called with seq_len < 1 raises AssertionError for every
\* token list and returns no dict; with seq_len >= 1 it raises nothing.
C10_FrequencyPrecondition ==
    pc # "call" =>
        /\ args.seq_len < 1 => (pc = "raise" /\ exc = "AssertionError" /\ ret = None)
        /\ args.seq_len >= 1 => (pc = "return" /\ exc = NoExc)

C10_Witness ==
    /\ pc = "raise"
    /\ args.tokens = <<>>
    /\ args.seq_len = 0
    /\ exc = "AssertionError"

(***************************************************************************)
(* Properties of cosine_similarity and similarity.                         *)
(***************************************************************************)
FloatOne == FloatOfInt(1)

Tokens(doc) == tokenize(clean(doc))

\* a document of the call keeps no token, so a frequency vector has norm 0
Degenerate == Tokens(args.d1) = <<>> \/ Tokens(args.d2) = <<>>

\* C1: when a document keeps no token after clean and tokenize, similarity
\* signals a dedicated degenerate-input error: it returns no value and the
\* ZeroDivisionError of the float division does not reach the caller.
C1_DegenerateInputError ==
    (pc # "call" /\ Degenerate) => (exc # NoExc /\ exc # "ZeroDivisionError")

\* C2: for two documents that each keep at least one token, similarity
\* returns a score between 0.0 and 1.0.
C2_SimilarityBounded ==
    (pc # "call" /\ ~Degenerate) => (exc = NoExc /\ ret \in 0..100)

C2_Witness ==
    /\ pc = "swap"
    /\ args.d1 = <<"x", " ", "x", " ">>
    /\ args.d2 = <<"x", " ", "Y", ".", " ">>
    /\ exc = NoExc
    /\ ret = 71

\* C3: similarity(d1, d2) and similarity(d2, d1) have the same outcome, the
\* same score or the same failure, whatever order each call's vocabulary
\* list comes out in.
C3_SimilaritySymmetric ==
    pc = "done" => first = [ret |-> ret, exc |-> exc]

C3_Witness ==
    /\ pc = "done"
    /\ Tokens(args.d1) = << <<"x">>, <<"x">> >>
    /\ Tokens(args.d2) = << <<"y">>, <<"x">> >>
    /\ vocab = << <<"y">>, <<"x">> >>
    /\ first = [ret |-> 71, exc |-> NoExc]
    /\ ret = 71

\* C4: for every frequency map v with non-zero norm, cosine_similarity(v, v)
\* is exactly 1.0.
C4_SelfSimilarityExactlyOne ==
    (pc # "call" /\ args.tf1 = args.tf2 /\ args.tf1 # EmptyDict) =>
        (pc = "return" /\ ret = FloatOne)

\* C5: two documents that each keep at least one token and share no token
\* score 0.0.
C5_DisjointScoreZero ==
    (/\ pc # "call"
     /\ ~Degenerate
     /\ Range(Tokens(args.d1)) \cap Range(Tokens(args.d2)) = {})
    => (exc = NoExc /\ ret = 0)

C5_Witness ==
    /\ pc = "swap"
    /\ Tokens(args.d1) = << <<"x">>, <<"x">> >>
    /\ Tokens(args.d2) = << <<"y">> >>
    /\ exc = NoExc
    /\ ret = 0

====
